---- MODULE Spec2Model ----
(***************************************************************************)
(* A model of the WorkerCoordinator of web/p2p/worker-coordinator.js: one  *)
(* coordinator instance, its queue, its active job, its worker registry    *)
(* and the local executions (the async loops of _processLocally and        *)
(* _processChunkLocally) that are suspended on a timer.  Every handler is  *)
(* one atomic action: JavaScript runs a handler to its first await before  *)
(* anything else is delivered, and each timer expiry resumes one loop.     *)
(* Around it: the callbacks registered on the coordinator, its optional    *)
(* backend, and connect, disconnect and startGeneration of the P2PDiffusion *)
(* application of web/p2p/p2p-diffusion.js.                                *)
(***************************************************************************)
EXTENDS Integers, Sequences, FiniteSets, TLC

\* ------------------------------------------------------------------ bounds
MaxJobs == 2          \* job objects ever admitted by one coordinator
MaxRuns == 2          \* local executions suspended at the same time
MaxStepsIn == 2       \* step counts of admitted jobs are 1..MaxStepsIn
MaxChunkMsg == 1      \* result messages carry chunk ids chunk_0..chunk_<MaxChunkMsg+1>
MaxN == 12            \* step counts of the chunk-construction specification
MaxW == 5             \* candidate counts of the chunk-construction specification
MaxProj == 2          \* jobs in one received queue projection
MaxAdmit == 3         \* job objects admitted in the admission specification
MaxProgressJobs == 1  \* job objects admitted in the progress specification
MaxSrvIds == 2        \* task ids of request bodies are 1..MaxSrvIds
MaxNow == 2           \* ticks of the server clock, of 24 hours each
MaxDepartJobs == 2    \* job objects admitted in the departure specification
MaxChunkSteps == 3    \* end step of a chunk received in a task message
MaxWorkerJobs == 1    \* job objects admitted in the worker specification
MaxLocalJobs == 3     \* job objects admitted in the specification without peers
MaxRoomJobs == 1      \* job objects admitted in the room specification

\* ------------------------------------------------------- program constants
E2ESteps == 20        \* default step count of addTask: options.steps || 20
MaxAge == 1           \* maxAge of the server's cleanup, 24 hours: one clock tick

Self == "self"
Peers == {"p1", "p2"}
NoChunk == -1         \* currentChunk: null
NoTask == 0           \* currentTask: null
ForeignId == 0        \* a job id made by another peer: never one made here

Steps == 1..MaxStepsIn
MsgChunkIds == 0..(MaxChunkMsg + 1)
ResultStatus == {"complete", "failed"}

VARIABLES
    jobs,        \* every job object ever admitted, by object identity (index)
    queue,       \* this.queue: job objects waiting, head first
    cur,         \* this.currentTask: a job object or NoTask
    workers,     \* this.workers: the registry, in insertion order
    localGPU,    \* this.localWorker.capabilities.hasGPU
    runs,        \* suspended local executions
    sent,        \* task messages handed to the transport by the last handler
    ret,         \* the id returned by the last addTask call
    bcast,       \* queue projections handed to the transport by the last handler
    agg,         \* the aggregate progress reported by the last handler
    calls,       \* the callbacks invoked by the last handler
    posts,       \* POSTs issued to the backend, each pending or settled
    subs,        \* onProgressCallback, onCompleteCallback, onQueueChangeCallback, onLogCallback
    backendAvailable,     \* this.backendAvailable (with this.backendUrl)
    app,         \* the P2PDiffusion application around the coordinator
    progOut,     \* progress messages handed to the transport by the last handler
    resOut,      \* Results made by local executions in the last handler
    srvQueues,   \* server.js: queues, roomId -> tasks
    srvStats,    \* server.js: roomStats, roomId -> statistics
    srvResp,     \* server.js: the response to the last request
    srvNow,      \* server.js: Date.now(), as a logical clock
    net,         \* P2PNetwork: this.peers, and the announcements in flight to it
    nN, nW, nI, nChunks   \* the chunk-construction loop on its own

vars == <<jobs, queue, cur, workers, localGPU, runs, sent, ret, bcast, agg, calls,
          posts, subs, backendAvailable, app, progOut, resOut,
          srvQueues, srvStats, srvResp, srvNow, net, nN, nW, nI, nChunks>>
coordVars == <<jobs, queue, cur, workers, localGPU, runs, sent, ret, bcast, agg, calls,
               posts, subs, backendAvailable, app, progOut, resOut>>
srvVars == <<srvQueues, srvStats, srvResp, srvNow>>
envVars == <<subs, backendAvailable, app>>
loopVars == <<nN, nW, nI, nChunks>>

NoAgg == [sum |-> 0, n |-> 0]          \* nothing reported
NoSub == "none"                        \* a callback field holding null
EventKinds == {"progress", "complete", "queueChange", "log"}
NoSubs == [k \in EventKinds |-> NoSub]
NoId == 0                              \* a request body without an id
NoResp == [status |-> 0, error |-> "none", position |-> 0, taskId |-> NoId]
NoNet == [peers |-> <<>>, flight |-> {}]   \* no peer in the room, nothing in flight
NoApp == [isConnected |-> FALSE, coordinator |-> FALSE, joinFailed |-> FALSE,
          left |-> FALSE, uiError |-> "none"]

Min(a, b) == IF a < b THEN a ELSE b

EmptyMap == <<>>
MapPut(m, k, v) == (k :> v) @@ m

\* The chunk list, the result map and the assignment map of a job are read
\* and written through this.currentTask only.  Once a job has left the slot no
\* handler reaches them again (a local execution still running for it uses
\* its id and its own chunk object only), so the model forgets them when the
\* next handler starts; the state right after the handler that completed the
\* job still shows what onComplete was given.
Forget(js, c) ==
    [k \in 1..Len(js) |->
        IF k = c THEN js[k]
        ELSE [js[k] EXCEPT !.chunks = <<>>, !.results = EmptyMap,
                           !.assignedWorkers = EmptyMap]]

\* The mutable part of the coordinator, threaded through the handlers.
St == [jobs |-> Forget(jobs, cur), queue |-> queue, cur |-> cur, workers |-> workers,
       runs |-> runs, sent |-> <<>>, bcast |-> <<>>, agg |-> NoAgg, calls |-> {},
       posts |-> posts, progOut |-> <<>>, resOut |-> <<>>]

\* if (this.onXCallback) this.onXCallback(...): the subscriber held by the
\* field, if any, is invoked.
Fire(st, kind) ==
    IF subs[kind] = NoSub THEN st
    ELSE [st EXCEPT !.calls = @ \cup {[kind |-> kind, to |-> subs[kind]]}]

\* A job object as addTask builds it.
NewTask(id, promptOk, steps, origin, full) ==
    [id |-> id, promptOk |-> promptOk, steps |-> steps, origin |-> origin,
     full |-> full, status |-> "pending", chunks |-> <<>>, results |-> EmptyMap,
     assignedWorkers |-> EmptyMap, completions |-> 0]

\* ---------------------------------------------------------------- registry
HasWorker(ws, p) == \E i \in 1..Len(ws) : ws[i].id = p
WorkerIdx(ws, p) == CHOOSE i \in 1..Len(ws) : ws[i].id = p
RemoveAt(s, i) == SubSeq(s, 1, i - 1) \o SubSeq(s, i + 1, Len(s))

\* network.onCapabilities: Map.set keeps the place of a key already present.
SetWorker(ws, p, gpu) ==
    LET w == [id |-> p, hasGPU |-> gpu, status |-> "idle", currentChunk |-> NoChunk,
              progress |-> 0]
    IN IF HasWorker(ws, p) THEN [ws EXCEPT ![WorkerIdx(ws, p)] = w] ELSE Append(ws, w)

\* Mutant of IdlePeers: the status of a peer is not looked at.
RECURSIVE IdlePeersAnyStatus(_)
IdlePeersAnyStatus(ws) ==
    IF ws = <<>> THEN <<>>
    ELSE (IF Head(ws).hasGPU
          THEN <<[id |-> Head(ws).id, isLocal |-> FALSE]>> ELSE <<>>)
         \o IdlePeersAnyStatus(Tail(ws))

RECURSIVE IdlePeers(_)
IdlePeers(ws) ==
    IF ws = <<>> THEN <<>>
    ELSE (IF Head(ws).status = "idle" /\ Head(ws).hasGPU
          THEN <<[id |-> Head(ws).id, isLocal |-> FALSE]>> ELSE <<>>)
         \o IdlePeers(Tail(ws))

\* Mutant of GetAvailableWorkers: the peers are listed before the local worker.
GetAvailableWorkersPeersFirst(st) ==
    IdlePeers(st.workers)
    \o (IF localGPU THEN <<[id |-> Self, isLocal |-> TRUE]>> ELSE <<>>)

\* _getAvailableWorkers: self first when it has a GPU, then the idle GPU peers.
GetAvailableWorkers(st) ==
    (IF localGPU THEN <<[id |-> Self, isLocal |-> TRUE]>> ELSE <<>>)
    \o IdlePeers(st.workers)

\* ------------------------------------------------------ chunk construction
\* Mutant of ChunksPerWorker: Math.floor in place of Math.ceil.
ChunksPerWorkerFloor(N, W) == N \div W

\* Math.ceil(totalSteps / numWorkers)
ChunksPerWorker(N, W) == (N + W - 1) \div W
ChunkStart(i, N, W) == i * ChunksPerWorker(N, W)
ChunkEnd(i, N, W) == Min(ChunkStart(i, N, W) + ChunksPerWorker(N, W), N)
MkChunk(i, N, W) ==
    [id |-> i, startStep |-> ChunkStart(i, N, W), endStep |-> ChunkEnd(i, N, W),
     status |-> "pending"]

\* network.broadcastProgress({taskId, chunkId, progress, workerId}): the
\* progress (i + 1) / steps is kept as its numerator and its denominator.
BroadcastProgress(st, taskId, chunkId, num, den) ==
    [st EXCEPT !.progOut = Append(@, [taskId |-> taskId, chunkId |-> chunkId,
                                      num |-> num, den |-> den, workerId |-> Self])]

\* Mutant of StartChunkRun: the Result of the chunk is stored before the
\* caller goes on.
StartChunkRunStoresResult(st, o, taskId, chunk) ==
    LET steps == chunk.endStep - chunk.startStep
        s1 == IF o = NoTask THEN st
              ELSE [st EXCEPT !.jobs[o].results = MapPut(@, chunk.id, "complete")]
    IN [BroadcastProgress(Fire(Fire(s1, "log"), "progress"), taskId, chunk.id, 1, steps)
           EXCEPT !.runs = Append(@, [kind |-> "chunk", oid |-> o, taskId |-> taskId,
                                      chunkId |-> chunk.id, left |-> steps,
                                      total |-> steps])]

\* The start of _processChunkLocally: the loop runs to its first await.
StartChunkRun(st, o, taskId, chunk) ==
    LET steps == chunk.endStep - chunk.startStep
    IN [BroadcastProgress(Fire(Fire(st, "log"), "progress"), taskId, chunk.id, 1, steps)
           EXCEPT !.runs = Append(@, [kind |-> "chunk", oid |-> o, taskId |-> taskId,
                                      chunkId |-> chunk.id, left |-> steps,
                                      total |-> steps])]

\* network.broadcastTask(workerTask, [target])
SendChunk(st, to, taskId, chunk) ==
    [st EXCEPT !.sent = Append(@, [to |-> to, taskId |-> taskId, chunkId |-> chunk.id,
                                   startStep |-> chunk.startStep,
                                   endStep |-> chunk.endStep])]

\* for (let i = 0; i < numWorkers; i++) { ... if (startStep >= totalSteps) break;
LoopContinues(i, N, W) == i < W /\ ChunkStart(i, N, W) < N

\* One iteration of the loop of _distributeWork, past its break.
DispatchChunk(st, o, worker, i, N, W) ==
    LET chunk == MkChunk(i, N, W)
        s1 == [st EXCEPT !.jobs[o].chunks = Append(@, chunk),
                         !.jobs[o].assignedWorkers = MapPut(@, worker.id, chunk.id)]
        s2 == IF ~worker.isLocal /\ HasWorker(s1.workers, worker.id)
              THEN [s1 EXCEPT !.workers[WorkerIdx(s1.workers, worker.id)] =
                        [@ EXCEPT !.status = "working", !.currentChunk = chunk.id]]
              ELSE s1
    IN IF worker.isLocal THEN StartChunkRun(s2, o, s2.jobs[o].id, chunk)
       ELSE SendChunk(s2, worker.id, s2.jobs[o].id, chunk)

RECURSIVE DistLoop(_, _, _, _)
DistLoop(st, o, avail, i) ==
    LET N == st.jobs[o].steps
        W == Len(avail)
    IN IF ~LoopContinues(i, N, W) THEN st
       ELSE DistLoop(DispatchChunk(st, o, avail[i + 1], i, N, W), o, avail, i + 1)

\* _distributeWork
DistributeWork(st, o, avail) ==
    Fire(DistLoop([st EXCEPT !.jobs[o].chunks = <<>>, !.jobs[o].assignedWorkers = EmptyMap],
                  o, avail, 0),
         "log")

\* The start of _processLocally: the loop runs to its first await.
ProcessLocally(st, o) ==
    [Fire(st, "progress")
        EXCEPT !.runs = Append(@, [kind |-> "job", oid |-> o, taskId |-> st.jobs[o].id,
                                   chunkId |-> NoChunk, left |-> st.jobs[o].steps,
                                   total |-> st.jobs[o].steps])]

\* Mutant of ProcessNextTask: the newest waiting job is taken (pop for shift).
ProcessNextTaskNewest(st) ==
    IF st.cur # NoTask \/ st.queue = <<>> THEN st
    ELSE LET o == st.queue[Len(st.queue)]
             s1 == [Fire(st, "log") EXCEPT !.queue = SubSeq(@, 1, Len(@) - 1), !.cur = o,
                                           !.jobs[o].status = "processing"]
             avail == GetAvailableWorkers(s1)
         IN IF ~s1.jobs[o].full THEN s1
            ELSE IF avail = <<>> THEN ProcessLocally(s1, o)
            ELSE DistributeWork(s1, o, avail)

\* _processNextTask.  A job merged from a queue projection has no options:
\* reading task.options.steps throws, and the handler ends there.
ProcessNextTask(st) ==
    IF st.cur # NoTask \/ st.queue = <<>> THEN st
    ELSE LET o == Head(st.queue)
             s1 == [Fire(st, "log") EXCEPT !.queue = Tail(@), !.cur = o,
                                           !.jobs[o].status = "processing"]
             avail == GetAvailableWorkers(s1)
         IN IF ~s1.jobs[o].full THEN s1
            ELSE IF avail = <<>> THEN ProcessLocally(s1, o)
            ELSE DistributeWork(s1, o, avail)

\* ------------------------------------------------------------- completion
CompletedCount(results) ==
    Cardinality({c \in DOMAIN results : results[c] = "complete"})

\* _completeTask: stamp, fire onComplete, clear the slot, pull the next job.
CompleteTask(st) ==
    ProcessNextTask([Fire(Fire(st, "log"), "complete")
                        EXCEPT !.jobs[st.cur].status = "complete",
                               !.jobs[st.cur].completions = @ + 1,
                               !.cur = NoTask])

\* Mutant of HandleResult: the job id of the Result is not compared.
HandleResultAnyJob(st, taskId, chunkId, status) ==
    IF st.cur = NoTask THEN st
    ELSE IF ~st.jobs[st.cur].full THEN st
    ELSE [st EXCEPT !.jobs[st.cur].results = MapPut(@, chunkId, status)]

\* _handleResult.  The job of a queue projection has no results map:
\* results.set throws before anything is changed.
HandleResult(st, taskId, chunkId, status) ==
    IF st.cur = NoTask THEN st
    ELSE IF st.jobs[st.cur].id # taskId THEN st
    ELSE IF ~st.jobs[st.cur].full THEN st
    ELSE LET s1 == [st EXCEPT !.jobs[st.cur].results = MapPut(@, chunkId, status)]
         IN IF CompletedCount(s1.jobs[s1.cur].results) = Len(s1.jobs[s1.cur].chunks)
            THEN CompleteTask(s1) ELSE s1

\* Mutant of FinishLocally: the next job is not pulled.
FinishLocallyNoNext(st, o) ==
    [Fire(st, "complete")
        EXCEPT !.jobs[o].status = "complete",
               !.jobs[o].completions = @ + 1,
               !.cur = NoTask]

\* The end of _processLocally, after the last timer: it completes the job it
\* was started for and clears the slot, whatever the slot holds by then.
FinishLocally(st, o) ==
    ProcessNextTask([Fire(st, "complete")
                        EXCEPT !.jobs[o].status = "complete",
                               !.jobs[o].completions = @ + 1,
                               !.cur = NoTask])

\* The end of _processChunkLocally: the chunk object is marked complete and
\* the result is handed to _handleResult of this coordinator.
FinishChunk(st, r) ==
    LET s1 == IF r.oid # NoTask /\ r.oid = st.cur
              THEN [st EXCEPT !.jobs[r.oid].chunks[r.chunkId + 1].status = "complete"]
              ELSE st
        result == [taskId |-> r.taskId, chunkId |-> r.chunkId, workerId |-> Self,
                   status |-> "complete", to |-> Self]
    IN HandleResult([s1 EXCEPT !.resOut = Append(@, result)],
                    r.taskId, r.chunkId, "complete")

\* Mutant of StepRun: the execution ends one step early.
StepRunOneStepShort(st) ==
    LET r == Head(st.runs)
        s1 == [st EXCEPT !.runs = Tail(@)]
        s2 == IF r.kind = "chunk"
              THEN BroadcastProgress(Fire(s1, "progress"), r.taskId, r.chunkId,
                                     r.total - r.left + 2, r.total)
              ELSE Fire(s1, "progress")
    IN IF r.left > 2
       THEN [s2 EXCEPT !.runs = Append(@, [r EXCEPT !.left = @ - 1])]
       ELSE IF r.kind = "job" THEN FinishLocally(s1, r.oid) ELSE FinishChunk(s1, r)

\* The oldest pending timer expires.  Every timer is setTimeout(resolve, 100):
\* equal delays expire in the order they were set, and the resumed loop sets
\* its next timer after all the pending ones.
StepRun(st) ==
    LET r == Head(st.runs)
        s1 == [st EXCEPT !.runs = Tail(@)]
        s2 == IF r.kind = "chunk"
              THEN BroadcastProgress(Fire(s1, "progress"), r.taskId, r.chunkId,
                                     r.total - r.left + 2, r.total)
              ELSE Fire(s1, "progress")
    IN IF r.left > 1
       THEN [s2 EXCEPT !.runs = Append(@, [r EXCEPT !.left = @ - 1])]
       ELSE IF r.kind = "job" THEN FinishLocally(s1, r.oid) ELSE FinishChunk(s1, r)

\* -------------------------------------------------------------- departure
HasChunk(chunks, c) == \E k \in 1..Len(chunks) : chunks[k].id = c
ChunkIdx(chunks, c) == CHOOSE k \in 1..Len(chunks) : chunks[k].id = c

\* Mutant of Reassign: the else branch (local execution) is missing.
ReassignNoFallback(st, k) ==
    LET s1 == [st EXCEPT !.jobs[st.cur].chunks[k].status = "pending"]
        chunk == s1.jobs[s1.cur].chunks[k]
        avail == GetAvailableWorkers(s1)
    IN IF avail # <<>> THEN SendChunk(s1, avail[1].id, s1.jobs[s1.cur].id, chunk)
       ELSE s1

\* The reassignment inside _handleWorkerDisconnect.
Reassign(st, k) ==
    LET s1 == [st EXCEPT !.jobs[st.cur].chunks[k].status = "pending"]
        chunk == s1.jobs[s1.cur].chunks[k]
        avail == GetAvailableWorkers(s1)
    IN IF avail # <<>> THEN SendChunk(s1, avail[1].id, s1.jobs[s1.cur].id, chunk)
       ELSE StartChunkRun(s1, s1.cur, s1.jobs[s1.cur].id, chunk)

\* _handleWorkerDisconnect.  With the job of a queue projection in the slot,
\* currentTask.chunks is undefined: find throws and the entry is not deleted.
HandleWorkerDisconnect(st, p) ==
    IF ~HasWorker(st.workers, p) THEN st
    ELSE LET w == st.workers[WorkerIdx(st.workers, p)]
             del(s) == [s EXCEPT !.workers = RemoveAt(@, WorkerIdx(@, p))]
         IN IF w.currentChunk = NoChunk \/ st.cur = NoTask THEN del(st)
            ELSE IF ~st.jobs[st.cur].full THEN Fire(st, "log")
            ELSE LET chunks == st.jobs[st.cur].chunks IN
                 IF HasChunk(chunks, w.currentChunk)
                    /\ chunks[ChunkIdx(chunks, w.currentChunk)].status # "complete"
                 THEN del(Reassign(Fire(st, "log"), ChunkIdx(chunks, w.currentChunk)))
                 ELSE del(Fire(st, "log"))

\* --------------------------------------------------------------- progress
RECURSIVE WorkingProgress(_)
WorkingProgress(ws) ==
    IF ws = <<>> THEN <<>>
    ELSE (IF Head(ws).status = "working" THEN <<Head(ws).progress>> ELSE <<>>)
         \o WorkingProgress(Tail(ws))

\* setLocalCapabilities builds {id, capabilities, status}; nothing assigns
\* localWorker.progress, so it is undefined and never pushed.
LocalWorkerProgress(st) == <<>>

RECURSIVE SumSeq(_)
SumSeq(q) == IF q = <<>> THEN 0 ELSE Head(q) + SumSeq(Tail(q))

\* _updateWorkerProgress.  Progress values are in tenths; the mean that is
\* reported is kept as the sum and the count it is the quotient of.
UpdateWorkerProgress(st, p, v) ==
    LET s1 == IF HasWorker(st.workers, p)
              THEN [st EXCEPT !.workers[WorkerIdx(st.workers, p)].progress = v]
              ELSE st
        allProgress == WorkingProgress(s1.workers) \o LocalWorkerProgress(s1)
    IN IF subs["progress"] # NoSub /\ s1.cur # NoTask
       THEN [Fire(s1, "progress") EXCEPT !.agg = [sum |-> SumSeq(allProgress),
                                                   n |-> Len(allProgress)]]
       ELSE s1

\* ------------------------------------------------------------------ queue
\* Mutant of QueueHasId: the id is looked up in the active slot, not the queue.
QueueHasIdActiveOnly(st, id) == st.cur # NoTask /\ st.jobs[st.cur].id = id

QueueHasId(st, id) == \E k \in 1..Len(st.queue) : st.jobs[st.queue[k]].id = id

Push(st, task) ==
    [st EXCEPT !.jobs = Append(@, task), !.queue = Append(@, Len(st.jobs) + 1)]

\* _syncQueue: a projected job whose id is not in the queue is appended as it
\* came: id, prompt, status, createdBy, createdAt and nothing else.
RECURSIVE SyncQueue(_, _)
SyncQueue(st, proj) ==
    IF proj = <<>> THEN st
    ELSE SyncQueue(IF QueueHasId(st, Head(proj)) THEN st
                   ELSE Push(st, NewTask(Head(proj), TRUE, 0, "sync", FALSE)),
                   Tail(proj))

\* Mutant of FreshId: the id has no part that differs between two calls.
FreshIdConstant(js) == 1

\* `task_${Date.now()}_${Math.random()...}`: an id no earlier call returned.
FreshId(js) == 1 + Cardinality({k \in 1..Len(js) : js[k].origin = "local"})

KnownIds == {jobs[k].id : k \in 1..Len(jobs)}

\* The projection of the queue: id, prompt, status, createdBy, createdAt.
Projection(st) ==
    [k \in 1..Len(st.queue) |->
        [id |-> st.jobs[st.queue[k]].id, status |-> st.jobs[st.queue[k]].status]]

\* _broadcastQueueUpdate
BroadcastQueueUpdate(st) == [st EXCEPT !.bcast = Append(@, Projection(st))]

\* ------------------------------------------------------------------ stats
\* Array.from(this.workers.values()).filter(w => w.capabilities && w.capabilities.hasGPU)
RECURSIVE GpuEntries(_)
GpuEntries(ws) ==
    IF ws = <<>> THEN <<>>
    ELSE (IF Head(ws).hasGPU THEN <<Head(ws)>> ELSE <<>>) \o GpuEntries(Tail(ws))

\* this.currentTask?.id: the id, or nothing when the slot is empty.
CurrentTaskId(st) == IF st.cur = NoTask THEN <<>> ELSE <<st.jobs[st.cur].id>>

\* Mutant of GetStats: the local worker is not counted.
GetStatsPeersOnly(st) ==
    [totalPeers |-> Len(st.workers),
     gpuWorkers |-> Len(GpuEntries(st.workers)),
     queueLength |-> Len(st.queue),
     currentTask |-> CurrentTaskId(st)]

\* getStats
GetStats(st) ==
    [totalPeers |-> Len(st.workers),
     gpuWorkers |-> Len(GpuEntries(st.workers)) + (IF localGPU THEN 1 ELSE 0),
     queueLength |-> Len(st.queue),
     currentTask |-> CurrentTaskId(st)]

\* ---------------------------------------------------------------- backend
\* _notifyBackend, to its await: the POST is issued when a backend was found.
NotifyBackend(st, id) ==
    IF backendAvailable
    THEN [st EXCEPT !.posts = Append(@, [id |-> id, state |-> "pending"])]
    ELSE st

PostOutcomes == {"ok", "notOk", "rejected"}

\* Mutant of PostOutcome: a rejected POST aborts the active job.
PostOutcomeAborts(st, outcome) ==
    IF outcome = "rejected" THEN [st EXCEPT !.cur = NoTask] ELSE st

\* _notifyBackend, after its await: the response is not looked at, and a
\* rejection is caught and written to the console.
PostOutcome(st, outcome) == st

HasPending(ps) == \E k \in 1..Len(ps) : ps[k].state = "pending"
FirstPending(ps) == CHOOSE k \in 1..Len(ps) :
                        ps[k].state = "pending" /\ \A i \in 1..(k - 1) : ps[i].state # "pending"

\* ----------------------------------------------------------------- server
\* The backend of server.js: the room queues, the room statistics, the clock.
Sv == [queues |-> srvQueues, stats |-> srvStats, resp |-> NoResp, now |-> srvNow]

QueueFinds(q, id) == \E k \in 1..Len(q) : q[k].id = id

\* updateRoomStats: the record of the room is made when there is none, then
\* queueLength and lastActivity are written.
UpdateRoomStats(sv, room) ==
    LET q == IF room \in DOMAIN sv.queues THEN sv.queues[room] ELSE <<>>
        created == IF room \in DOMAIN sv.stats THEN sv.stats[room].created ELSE sv.now
    IN [sv EXCEPT !.stats = MapPut(@, room, [created |-> created,
                                             queueLength |-> Len(q),
                                             lastActivity |-> sv.now])]

\* Mutant of AddToQueue: the task is pushed without looking for its id.
AddToQueueNoLookup(sv, room, id) ==
    LET s1 == IF room \in DOMAIN sv.queues THEN sv
              ELSE [sv EXCEPT !.queues = MapPut(@, room, <<>>)]
    IN UpdateRoomStats(
           [s1 EXCEPT !.queues[room] =
                Append(@, [id |-> id, serverReceived |-> s1.now,
                           serverStatus |-> "queued"])],
           room)

\* addToQueue: the queue of the room is made when there is none; a task whose
\* id is not in it is pushed and the statistics are updated.
AddToQueue(sv, room, id) ==
    LET s1 == IF room \in DOMAIN sv.queues THEN sv
              ELSE [sv EXCEPT !.queues = MapPut(@, room, <<>>)]
    IN IF QueueFinds(s1.queues[room], id) THEN s1
       ELSE UpdateRoomStats(
                [s1 EXCEPT !.queues[room] =
                     Append(@, [id |-> id, serverReceived |-> s1.now,
                                serverStatus |-> "queued"])],
                room)

\* addToQueue(roomId, null), a task message without payload: t.id === task.id
\* throws as soon as the queue has an entry to compare; on an empty queue
\* {...null, serverReceived, serverStatus} is pushed, an entry without id.
AddNullToQueue(sv, room) ==
    IF room \in DOMAIN sv.queues /\ sv.queues[room] # <<>> THEN sv
    ELSE AddToQueue(sv, room, NoId)

Restrict(m, ks) == [k \in ks |-> m[k]]

\* Mutant of CleanupRooms: only the statistics of an inactive room are deleted.
CleanupStatsOnly(sv) ==
    LET old == {r \in DOMAIN sv.stats : sv.now - sv.stats[r].lastActivity > MaxAge}
    IN [sv EXCEPT !.stats = Restrict(@, DOMAIN @ \ old)]

\* The body of the cleanup interval: every room whose last activity is more
\* than maxAge ago loses its queue and its statistics.
CleanupRooms(sv) ==
    LET old == {r \in DOMAIN sv.stats : sv.now - sv.stats[r].lastActivity > MaxAge}
    IN [sv EXCEPT !.queues = Restrict(@, DOMAIN @ \ old),
                  !.stats = Restrict(@, DOMAIN @ \ old)]

\* Mutant of PostQueueHandler: the body is not validated.
PostQueueNoValidation(sv, room, id) ==
    LET s1 == AddToQueue(sv, room, id)
    IN [s1 EXCEPT !.resp = [status |-> 200, error |-> "none",
                            position |-> Len(s1.queues[room]), taskId |-> id]]

\* app.post('/api/queue/:roomId')
PostQueueHandler(sv, room, id) ==
    IF id = NoId
    THEN [sv EXCEPT !.resp = [status |-> 400, error |-> "Invalid task",
                              position |-> 0, taskId |-> NoId]]
    ELSE LET s1 == AddToQueue(sv, room, id)
         IN [s1 EXCEPT !.resp = [status |-> 200, error |-> "none",
                                 position |-> Len(s1.queues[room]), taskId |-> id]]

\* ---------------------------------------------------------------- actions
CommitNet(s, n) ==
    /\ Len(s.runs) <= MaxRuns
    /\ net' = n
    /\ jobs' = s.jobs /\ queue' = s.queue /\ cur' = s.cur
    /\ workers' = s.workers /\ runs' = s.runs /\ sent' = s.sent
    /\ bcast' = s.bcast /\ agg' = s.agg /\ calls' = s.calls /\ posts' = s.posts
    /\ progOut' = s.progOut /\ resOut' = s.resOut
    /\ UNCHANGED <<localGPU, envVars, loopVars, srvVars>>

\* A handler of the coordinator alone: the network layer is left as it is.
Commit(s) == CommitNet(s, net)

MsgIds == KnownIds \cup {ForeignId}

\* addTask(prompt, negativePrompt, options)
AddTask(promptOk, steps) ==
    /\ Commit(ProcessNextTask(Fire(Fire(NotifyBackend(BroadcastQueueUpdate(
                  Push(St, NewTask(FreshId(jobs), promptOk, steps, "local", TRUE))),
                  FreshId(jobs)), "log"), "queueChange")))
    /\ ret' = FreshId(jobs)

\* _handleIncomingTask, type 'generate'
IncomingGenerate(id, steps) ==
    /\ Commit(ProcessNextTask(Push(Fire(St, "log"),
                                    NewTask(id, TRUE, steps, "generate", TRUE))))
    /\ UNCHANGED ret

\* _handleIncomingTask, type 'process_chunk': the chunk of the message is
\* executed; the execution belongs to no job object of this coordinator.
IncomingChunk(taskId, chunkId, startStep, endStep) ==
    /\ Commit(StartChunkRun(Fire(St, "log"), NoTask, taskId,
                            [id |-> chunkId, startStep |-> startStep,
                             endStep |-> endStep, status |-> "pending"]))
    /\ UNCHANGED ret

\* network.onResult
ResultMsg(taskId, chunkId, status) ==
    /\ Commit(HandleResult(Fire(St, "log"), taskId, chunkId, status))
    /\ UNCHANGED ret

\* network.onCapabilities
Capabilities(p, gpu) ==
    /\ Commit(Fire([St EXCEPT !.workers = SetWorker(@, p, gpu)], "log"))
    /\ UNCHANGED ret

\* network.onPeerLeave
PeerLeave(p) ==
    /\ Commit(HandleWorkerDisconnect(St, p))
    /\ UNCHANGED ret

\* network.onQueueUpdate
QueueUpdate(proj) ==
    /\ Commit(Fire(SyncQueue(St, proj), "queueChange"))
    /\ UNCHANGED ret

\* network.onProgress
Progress(p, v) ==
    /\ Commit(UpdateWorkerProgress(St, p, v))
    /\ UNCHANGED ret

\* The fetch of _notifyBackend settles.
PostSettles(outcome) ==
    /\ HasPending(posts)
    /\ Commit(PostOutcome([St EXCEPT !.posts[FirstPending(posts)].state = outcome],
                          outcome))
    /\ UNCHANGED ret

\* checkBackend: a response that is ok records the backend, an exception
\* (or the 5 s abort) records that there is none.
CheckBackend(outcome) ==
    /\ backendAvailable' = (IF outcome = "ok" THEN TRUE
                            ELSE IF outcome = "rejected" THEN FALSE
                            ELSE backendAvailable)
    /\ calls' = Fire(St, "log").calls
    /\ sent' = <<>> /\ bcast' = <<>> /\ agg' = NoAgg /\ progOut' = <<>> /\ resOut' = <<>>
    /\ jobs' = Forget(jobs, cur)
    /\ UNCHANGED <<queue, cur, workers, localGPU, runs, ret, posts, subs, app, loopVars, srvVars, net>>

\* Mutant of SetCallback: a subscriber already registered is kept.
SetCallbackKeepFirst(sb, kind, who) ==
    IF sb[kind] = NoSub THEN [sb EXCEPT ![kind] = who] ELSE sb

\* onProgress(callback) { this.onProgressCallback = callback; } and the like
SetCallback(sb, kind, who) == [sb EXCEPT ![kind] = who]

\* onProgress, onComplete, onQueueChange, onLog
Register(kind, who) ==
    /\ subs' = SetCallback(subs, kind, who)
    /\ sent' = <<>> /\ bcast' = <<>> /\ agg' = NoAgg /\ calls' = {}
    /\ progOut' = <<>> /\ resOut' = <<>>
    /\ jobs' = Forget(jobs, cur)
    /\ UNCHANGED <<queue, cur, workers, localGPU, runs, ret, posts, backendAvailable,
                   app, loopVars, srvVars, net>>

\* A timer of a suspended local execution expires.
Tick ==
    /\ runs # <<>>
    /\ Commit(StepRun(St))
    /\ UNCHANGED ret

\* A peer answers the chunk it was sent with a complete Result.
PeerResult(p) ==
    /\ cur # NoTask
    /\ p \in DOMAIN jobs[cur].assignedWorkers
    /\ ResultMsg(jobs[cur].id, jobs[cur].assignedWorkers[p], "complete")

\* ---------------------------------------------------------- specifications
Projections == UNION {[1..n -> MsgIds] : n \in 1..MaxProj}

Init ==
    /\ jobs = <<>> /\ queue = <<>> /\ cur = NoTask
    /\ workers = <<>> /\ localGPU \in BOOLEAN
    /\ runs = <<>> /\ sent = <<>> /\ ret = NoTask
    /\ bcast = <<>> /\ agg = NoAgg /\ calls = {} /\ posts = <<>>
    /\ progOut = <<>> /\ resOut = <<>>
    /\ srvQueues = EmptyMap /\ srvStats = EmptyMap /\ srvResp = NoResp /\ srvNow = 0
    /\ net = NoNet
    /\ subs = NoSubs /\ backendAvailable = FALSE /\ app = NoApp
    /\ nN = 0 /\ nW = 0 /\ nI = 0 /\ nChunks = <<>>

\* The scheduler with its registry: valid jobs, any result message, peers
\* announcing themselves and leaving.
Next ==
    \/ Len(jobs) < MaxJobs /\ \E s \in Steps : AddTask(TRUE, s)
    \/ \E id \in MsgIds, c \in MsgChunkIds, s \in ResultStatus : ResultMsg(id, c, s)
    \/ \E p \in Peers, gpu \in BOOLEAN : Capabilities(p, gpu)
    \/ \E p \in Peers : PeerLeave(p)
    \/ Tick

Spec == Init /\ [][Next]_vars

\* Admission: every way a job enters the queue, with one peer in the room.
NextAdmit ==
    \/ Len(jobs) < MaxAdmit /\ \E promptOk \in BOOLEAN, s \in Steps : AddTask(promptOk, s)
    \/ Len(jobs) < MaxAdmit /\ \E id \in MsgIds : IncomingGenerate(id, 1)
    \/ \E proj \in Projections : Len(jobs) + Len(proj) <= MaxAdmit /\ QueueUpdate(proj)
    \/ \E c \in MsgChunkIds : cur # NoTask /\ ResultMsg(jobs[cur].id, c, "complete")
    \/ \E gpu \in BOOLEAN : Capabilities("p1", gpu)
    \/ Tick

SpecAdmit == Init /\ [][NextAdmit]_vars

\* The end-to-end scenario: jobs of 20 steps, a GPU-capable local worker and
\* one GPU-capable peer that answers its chunks and announces itself again.
InitE2E ==
    /\ jobs = <<>> /\ queue = <<>> /\ cur = NoTask
    /\ workers = SetWorker(<<>>, "p1", TRUE) /\ localGPU = TRUE
    /\ runs = <<>> /\ sent = <<>> /\ ret = NoTask
    /\ bcast = <<>> /\ agg = NoAgg /\ calls = {} /\ posts = <<>>
    /\ progOut = <<>> /\ resOut = <<>>
    /\ srvQueues = EmptyMap /\ srvStats = EmptyMap /\ srvResp = NoResp /\ srvNow = 0
    /\ net = NoNet
    /\ subs = NoSubs /\ backendAvailable = FALSE /\ app = NoApp
    /\ nN = 0 /\ nW = 0 /\ nI = 0 /\ nChunks = <<>>

NextE2E ==
    \/ Len(jobs) < MaxJobs /\ AddTask(TRUE, E2ESteps)
    \/ PeerResult("p1")
    \/ Capabilities("p1", TRUE)
    \/ Tick

SpecE2E == InitE2E /\ [][NextE2E]_vars

\* The coordinator with subscribers that are replaced while it works.
Subscribers == {"A", "B"}

InitEvents ==
    /\ jobs = <<>> /\ queue = <<>> /\ cur = NoTask
    /\ workers = <<>> /\ localGPU \in BOOLEAN
    /\ runs = <<>> /\ sent = <<>> /\ ret = NoTask
    /\ bcast = <<>> /\ agg = NoAgg /\ calls = {} /\ posts = <<>>
    /\ progOut = <<>> /\ resOut = <<>>
    /\ srvQueues = EmptyMap /\ srvStats = EmptyMap /\ srvResp = NoResp /\ srvNow = 0
    /\ net = NoNet
    /\ subs = [k \in EventKinds |-> "A"]
    /\ backendAvailable = FALSE /\ app = NoApp
    /\ nN = 0 /\ nW = 0 /\ nI = 0 /\ nChunks = <<>>

NextEvents ==
    \/ \E kind \in EventKinds, who \in Subscribers : Register(kind, who)
    \/ Len(jobs) < MaxJobs /\ \E s \in Steps : AddTask(TRUE, s)
    \/ Len(jobs) < MaxJobs /\ QueueUpdate(<<ForeignId>>)
    \/ Tick

SpecEvents == InitEvents /\ [][NextEvents]_vars

\* ---------------------------------------------------------------- network
\* room.onPeerJoin: the peer is entered in this.peers without capabilities.
\* The coordinator registers no onPeerJoin callback.
RoomPeerJoin(p) ==
    /\ p \notin DOMAIN net.peers
    /\ net' = [net EXCEPT !.peers = MapPut(@, p, "null")]
    /\ UNCHANGED <<coordVars, loopVars, srvVars>>

\* A peer in the room sends its capabilities; the message is in flight.
PeerAnnounces(p, gpu) ==
    /\ p \in DOMAIN net.peers
    /\ net' = [net EXCEPT !.flight = @ \cup {[from |-> p, hasGPU |-> gpu]}]
    /\ UNCHANGED <<coordVars, loopVars, srvVars>>

\* getCapabilities: the capabilities are stored with the peer when it is in
\* this.peers; the coordinator's handler is called in either case.
DeliverCapabilities(m) ==
    /\ m \in net.flight
    /\ CommitNet(Fire([St EXCEPT !.workers = SetWorker(@, m.from, m.hasGPU)], "log"),
                 [peers |-> IF m.from \in DOMAIN net.peers
                            THEN MapPut(net.peers, m.from, IF m.hasGPU THEN "gpu" ELSE "cpu")
                            ELSE net.peers,
                  flight |-> net.flight \ {m}])
    /\ UNCHANGED ret

\* room.onPeerLeave: the peer is deleted from this.peers, then the
\* coordinator's handler runs.
RoomPeerLeave(p) ==
    /\ p \in DOMAIN net.peers
    /\ CommitNet(HandleWorkerDisconnect(St, p),
                 [net EXCEPT !.peers = [q \in DOMAIN net.peers \ {p} |-> net.peers[q]]])
    /\ UNCHANGED ret

\* The room as the network layer sees it: peers join, announce themselves and
\* leave; an announcement may be handled after the leave event of its sender.
NextRoom ==
    \/ \E p \in Peers : RoomPeerJoin(p)
    \/ \E p \in Peers, gpu \in BOOLEAN : PeerAnnounces(p, gpu)
    \/ \E m \in net.flight : DeliverCapabilities(m)
    \/ \E p \in Peers : RoomPeerLeave(p)
    \/ Len(jobs) < MaxRoomJobs /\ AddTask(TRUE, 1)

SpecRoom == Init /\ [][NextRoom]_vars

\* Results that arrive at any time, for any job, with every callback subscribed.
NextLate ==
    \/ Len(jobs) < MaxJobs /\ \E s \in Steps : AddTask(TRUE, s)
    \/ \E id \in MsgIds, c \in MsgChunkIds, st \in ResultStatus : ResultMsg(id, c, st)
    \/ Tick

SpecLate == InitEvents /\ [][NextLate]_vars

\* The coordinator with a backend that comes and goes.
NextBackend ==
    \/ \E outcome \in PostOutcomes : CheckBackend(outcome)
    \/ Len(jobs) < MaxJobs /\ \E s \in Steps : AddTask(TRUE, s)
    \/ \E outcome \in PostOutcomes : PostSettles(outcome)
    \/ Tick

SpecBackend == Init /\ [][NextBackend]_vars

\* ------------------------------------------------------------ application
AppSubs == [k \in EventKinds |-> "ui"]

\* P2PDiffusion.connect with a room id.  A join that fails is caught: the
\* error is written to the UI log and connect returns normally, with no
\* coordinator made.  After a join that succeeds the coordinator is made, its
\* four callbacks are registered, its checkBackend is awaited when the
\* application found a backend, and _setupNetworkCallbacks replaces the
\* coordinator's handlers for capabilities and peer-leave on the transport.
Connect(joinOk) ==
    /\ ~app.isConnected /\ ~app.coordinator /\ ~app.left
    /\ IF joinOk
       THEN /\ app' = [app EXCEPT !.isConnected = TRUE, !.coordinator = TRUE,
                                  !.joinFailed = FALSE]
            /\ subs' = AppSubs
            /\ backendAvailable' \in BOOLEAN
       ELSE /\ app' = [app EXCEPT !.joinFailed = TRUE, !.uiError = "join"]
            /\ UNCHANGED <<subs, backendAvailable>>
    /\ UNCHANGED <<jobs, queue, cur, workers, localGPU, runs, sent, ret, bcast, agg,
                   calls, posts, progOut, resOut, loopVars, srvVars, net>>

\* P2PDiffusion.disconnect: the room is left and the reference to the
\* coordinator is dropped; the coordinator object, its timers and its
\* callbacks are not touched.
Disconnect ==
    /\ app.isConnected
    /\ app' = [app EXCEPT !.isConnected = FALSE, !.coordinator = FALSE, !.left = TRUE]
    /\ net' = [net EXCEPT !.peers = EmptyMap]
    /\ UNCHANGED <<jobs, queue, cur, workers, localGPU, runs, sent, ret, bcast, agg,
                   calls, posts, progOut, resOut, subs, backendAvailable, loopVars, srvVars>>

\* P2PDiffusion.startGeneration: addTask(prompt, negativePrompt, { model }).
StartGeneration(promptOk) ==
    IF ~app.isConnected \/ ~app.coordinator
    THEN /\ app' = [app EXCEPT !.uiError = "notConnected"]
         /\ UNCHANGED <<jobs, queue, cur, workers, localGPU, runs, sent, ret, bcast, agg,
                        calls, posts, progOut, resOut, subs, backendAvailable, loopVars, srvVars, net>>
    ELSE IF ~promptOk
    THEN /\ app' = [app EXCEPT !.uiError = "noPrompt"]
         /\ UNCHANGED <<jobs, queue, cur, workers, localGPU, runs, sent, ret, bcast, agg,
                        calls, posts, progOut, resOut, subs, backendAvailable, loopVars, srvVars, net>>
    ELSE AddTask(TRUE, E2ESteps)

NextApp ==
    \/ \E joinOk \in BOOLEAN : Connect(joinOk)
    \/ Disconnect
    \/ \E promptOk \in BOOLEAN : Len(jobs) < MaxJobs /\ StartGeneration(promptOk)
    \/ Tick

SpecApp == Init /\ [][NextApp]_vars

\* Progress reports of peers, with a subscriber to onProgress.
ProgressVals == {2, 6, 10}

InitProgress ==
    /\ jobs = <<>> /\ queue = <<>> /\ cur = NoTask
    /\ workers = <<>> /\ localGPU \in BOOLEAN
    /\ runs = <<>> /\ sent = <<>> /\ ret = NoTask
    /\ bcast = <<>> /\ agg = NoAgg /\ calls = {} /\ posts = <<>>
    /\ progOut = <<>> /\ resOut = <<>>
    /\ srvQueues = EmptyMap /\ srvStats = EmptyMap /\ srvResp = NoResp /\ srvNow = 0
    /\ net = NoNet
    /\ subs = [NoSubs EXCEPT !["progress"] = "A"]
    /\ backendAvailable = FALSE /\ app = NoApp
    /\ nN = 0 /\ nW = 0 /\ nI = 0 /\ nChunks = <<>>

NextProgress ==
    \/ Len(jobs) < MaxProgressJobs /\ \E s \in Steps : AddTask(TRUE, s)
    \/ \E p \in Peers : Capabilities(p, TRUE)
    \/ \E p \in Peers, v \in ProgressVals : Progress(p, v)
    \/ \E p \in Peers : PeerLeave(p)
    \/ Tick

SpecProgress == InitProgress /\ [][NextProgress]_vars

\* The loop of _distributeWork on its own, for every N and W in range.

InitChunks ==
    /\ jobs = <<>> /\ queue = <<>> /\ cur = NoTask
    /\ workers = <<>> /\ localGPU = FALSE
    /\ runs = <<>> /\ sent = <<>> /\ ret = NoTask
    /\ bcast = <<>> /\ agg = NoAgg /\ calls = {} /\ posts = <<>>
    /\ progOut = <<>> /\ resOut = <<>>
    /\ srvQueues = EmptyMap /\ srvStats = EmptyMap /\ srvResp = NoResp /\ srvNow = 0
    /\ net = NoNet
    /\ subs = NoSubs /\ backendAvailable = FALSE /\ app = NoApp
    /\ nN \in 1..MaxN /\ nW \in 1..MaxW /\ nI = 0 /\ nChunks = <<>>

LoopStep ==
    /\ LoopContinues(nI, nN, nW)
    /\ nChunks' = Append(nChunks, MkChunk(nI, nN, nW))
    /\ nI' = nI + 1
    /\ UNCHANGED <<nN, nW, coordVars, srvVars, net>>

SpecChunks == InitChunks /\ [][LoopStep]_vars

\* A coordinator alone in the room, with a subscriber to onComplete: jobs are
\* added and the step timers expire.  A timer that was set expires: the
\* event loop runs every timer whose delay has passed.
InitLocal ==
    /\ jobs = <<>> /\ queue = <<>> /\ cur = NoTask
    /\ workers = <<>> /\ localGPU \in BOOLEAN
    /\ runs = <<>> /\ sent = <<>> /\ ret = NoTask
    /\ bcast = <<>> /\ agg = NoAgg /\ calls = {} /\ posts = <<>>
    /\ progOut = <<>> /\ resOut = <<>>
    /\ srvQueues = EmptyMap /\ srvStats = EmptyMap /\ srvResp = NoResp /\ srvNow = 0
    /\ net = NoNet
    /\ subs = SetCallback(NoSubs, "complete", "app")
    /\ backendAvailable = FALSE /\ app = NoApp
    /\ nN = 0 /\ nW = 0 /\ nI = 0 /\ nChunks = <<>>

NextLocal ==
    \/ Len(jobs) < MaxLocalJobs /\ \E s \in Steps : AddTask(TRUE, s)
    \/ Tick

SpecLocal == InitLocal /\ [][NextLocal]_vars /\ WF_vars(Tick)

\* A coordinator in the role of a worker: chunks arrive in task messages
\* while it also admits a job of its own.
NextWorker ==
    \/ Len(jobs) < MaxWorkerJobs /\ \E s \in Steps : AddTask(TRUE, s)
    \/ \E c \in MsgChunkIds, a \in 0..1, b \in 1..MaxChunkSteps :
           a < b /\ IncomingChunk(ForeignId, c, a, b)
    \/ Tick

SpecWorker == Init /\ [][NextWorker]_vars

\* Departures: peers come, answer and go while jobs are added and the queue
\* projection of another peer is merged.
NextDepart ==
    \/ Len(jobs) < MaxDepartJobs /\ AddTask(TRUE, 1)
    \/ Len(jobs) < MaxDepartJobs /\ QueueUpdate(<<ForeignId>>)
    \/ \E p \in Peers : Capabilities(p, TRUE)
    \/ \E p \in Peers : PeerLeave(p)
    \/ \E p \in Peers : PeerResult(p)
    \/ Tick

SpecDepart == Init /\ [][NextDepart]_vars

\* The backend on its own: requests to the queue endpoint while time passes.
Rooms == {"r1", "r2"}
BodyIds == {NoId} \cup 1..MaxSrvIds

CommitSv(sv) ==
    /\ srvQueues' = sv.queues /\ srvStats' = sv.stats /\ srvResp' = sv.resp
    /\ UNCHANGED <<srvNow, coordVars, loopVars, net>>

\* POST /api/queue/:roomId with a body whose id is `id` (NoId: no id).
PostQueue(room, id) == CommitSv(PostQueueHandler(Sv, room, id))

\* getTask of joinAsHelper: a task message of a peer in a room the server has
\* joined is queued as it came, with or without an id.  No request is answered.
HelperTask(room, id) ==
    CommitSv([AddToQueue(Sv, room, id) EXCEPT !.resp = srvResp])

\* getTask of joinAsHelper, for a task message without payload.
HelperNullTask(room) ==
    CommitSv([AddNullToQueue(Sv, room) EXCEPT !.resp = srvResp])

\* The cleanup interval fires.
Cleanup == CommitSv([CleanupRooms(Sv) EXCEPT !.resp = srvResp])

\* Time passes on the server.
SrvClock ==
    /\ srvNow' = srvNow + 1
    /\ UNCHANGED <<srvQueues, srvStats, srvResp, coordVars, loopVars, net>>

NextServer ==
    \/ \E room \in Rooms, id \in BodyIds : PostQueue(room, id)
    \/ \E room \in Rooms : HelperNullTask(room)
    \/ \E room \in Rooms, id \in BodyIds : HelperTask(room, id)
    \/ Cleanup
    \/ srvNow < MaxNow /\ SrvClock

SpecServer == Init /\ [][NextServer]_vars

\* ================================================================== claims
AllJobs == 1..Len(jobs)
RunsOf(o) == {k \in 1..Len(runs) : runs[k].oid = o}
HasComplete(results, c) == c \in DOMAIN results /\ results[c] = "complete"
AllChunksComplete(j) ==
    \A k \in 1..Len(j.chunks) : HasComplete(j.results, j.chunks[k].id)

\* C1: at most one job has status processing, it is the job in the active
\* slot, and while a job is in the slot no local execution of another job of
\* this coordinator is still running.
C1_SingleActiveJob ==
    /\ \A o \in AllJobs : jobs[o].status = "processing" => o = cur
    /\ cur # NoTask =>
          \A k \in 1..Len(runs) : runs[k].oid # NoTask => runs[k].oid = cur

\* C2: the chunks built by the loop of _distributeWork are contiguous ranges
\* [start,end) with start < end <= N, they start at 0, there are at most W of
\* them, and when the loop has ended they cover [0,N) exactly.
C2_ChunksPartition ==
    /\ Len(nChunks) <= nW
    /\ \A k \in 1..Len(nChunks) :
          /\ nChunks[k].id = k - 1
          /\ nChunks[k].startStep < nChunks[k].endStep
          /\ nChunks[k].endStep <= nN
          /\ nChunks[k].startStep = (IF k = 1 THEN 0 ELSE nChunks[k - 1].endStep)
    /\ (nN > 0 /\ ~LoopContinues(nI, nN, nW)) =>
          /\ nChunks # <<>>
          /\ nChunks[Len(nChunks)].endStep = nN

\* C2 witness: the loop has ended early (a candidate got no chunk) after an
\* uneven split into several chunks.
C2_Witness ==
    /\ nN > 0 /\ ~LoopContinues(nI, nN, nW)
    /\ Len(nChunks) >= 3 /\ Len(nChunks) < nW
    /\ nChunks[Len(nChunks)].endStep - nChunks[Len(nChunks)].startStep
          < nChunks[1].endStep - nChunks[1].startStep

\* C3: a job pulled when there is no candidate gets exactly one chunk, [0,N),
\* in its chunk list, and a local execution is started for it.
C3_OneChunkWhenNoCandidate ==
    [][(cur' # NoTask /\ cur' # cur /\ jobs'[cur'].full
        /\ GetAvailableWorkers(St) = <<>>)
       => /\ Len(jobs'[cur'].chunks) = 1
          /\ jobs'[cur'].chunks[1].startStep = 0
          /\ jobs'[cur'].chunks[1].endStep = jobs'[cur'].steps
          /\ \E k \in 1..Len(runs') : runs'[k].oid = cur']_vars

\* C4: a job is complete only if every chunk of its chunk list has a complete
\* Result recorded, and it does not stay in the slot once all of them have.
C4_CompleteIffAllChunks ==
    \A o \in AllJobs :
        /\ (jobs[o].full /\ jobs[o].status = "complete") => AllChunksComplete(jobs[o])
        /\ (o = cur /\ jobs[o].full /\ jobs[o].chunks # <<>>) => ~AllChunksComplete(jobs[o])

\* C5: onComplete fires at most once for a job, and has fired exactly when
\* the job is complete.
C5_CallbackOnce ==
    \A o \in AllJobs :
        /\ jobs[o].completions <= 1
        /\ jobs[o].status = "complete" <=> jobs[o].completions = 1

\* C6: a complete Result recorded for a chunk of the active job stays recorded
\* as complete for as long as that job is in the slot.
C6_NoRetraction ==
    [][\A c \in MsgChunkIds :
          (cur # NoTask /\ cur' = cur /\ HasChunk(jobs[cur].chunks, c)
           /\ HasComplete(jobs[cur].results, c))
          => HasComplete(jobs'[cur].results, c)]_vars

\* The registry entry of peer p names a chunk of the active job that is not
\* marked complete.
HoldsIncompleteChunk(p) ==
    /\ HasWorker(workers, p)
    /\ cur # NoTask
    /\ jobs[cur].full
    /\ LET c == workers[WorkerIdx(workers, p)].currentChunk
       IN /\ HasChunk(jobs[cur].chunks, c)
          /\ jobs[cur].chunks[ChunkIdx(jobs[cur].chunks, c)].status # "complete"
HeldChunk(p) ==
    jobs[cur].chunks[ChunkIdx(jobs[cur].chunks,
                              workers[WorkerIdx(workers, p)].currentChunk)]

C8_EmptyPromptRejected ==
    \A o \in AllJobs : jobs[o].origin = "local" => jobs[o].promptOk

\* C9, as stated: addTask with valid fields returns a new id and the queue is
\* one longer after the call, idle or busy.
C9_QueueGrowsByOne ==
    [][(\E s \in Steps : AddTask(TRUE, s))
       => (ret' \notin KnownIds /\ Len(queue') = Len(queue) + 1)]_vars

\* C9, amended: addTask with valid fields returns the id of the job it
\* appended, different from the id of every job admitted before; when a job
\* is active the queue is one longer after the call, and when none is the
\* head of the queue is pulled into the slot within the call, so the queue
\* is as long as before.
C9_AdmitsWithFreshId ==
    [][(\E s \in Steps : AddTask(TRUE, s))
       => /\ ret' \notin KnownIds
          /\ Len(jobs') = Len(jobs) + 1
          /\ jobs'[Len(jobs')].id = ret'
          /\ cur # NoTask => (Len(queue') = Len(queue) + 1 /\ cur' = cur
                              /\ queue'[Len(queue')] = Len(jobs'))
          /\ cur = NoTask => (Len(queue') = Len(queue) /\ cur' # NoTask
                              /\ cur' = Head(Append(queue, Len(jobs'))))]_vars

\* C9 witness: addTask has returned while another job was active (its job
\* waits in the queue) after an earlier call on an idle coordinator whose
\* queue held a merged job (that job was pulled, the new one waits).
C9_Witness ==
    /\ Len(jobs) = 3 /\ ret = 2
    /\ jobs[1].origin = "sync" /\ cur = 1
    /\ jobs[2].origin = "local" /\ jobs[3].origin = "local"
    /\ queue = <<2, 3>>

\* C10: a job of 20 steps pulled when the local worker has a GPU and exactly
\* one peer is idle with a GPU gets the chunks [0,10) and [10,20), the first
\* executed by the local worker and the second sent to the peer; onComplete
\* fires at most once for a job, has fired exactly when the job is complete,
\* and the job leaves the slot, complete, in the step that records the second
\* of the two complete Results.
C10_Dispatch ==
    (cur' # NoTask /\ cur' # cur /\ jobs'[cur'].steps = E2ESteps
     /\ localGPU
     /\ workers = <<[id |-> "p1", hasGPU |-> TRUE, status |-> "idle",
                     currentChunk |-> NoChunk, progress |-> 0]>>)
    => LET j == jobs'[cur'] IN
       /\ j.chunks = <<[id |-> 0, startStep |-> 0, endStep |-> 10, status |-> "pending"],
                       [id |-> 1, startStep |-> 10, endStep |-> 20, status |-> "pending"]>>
       /\ DOMAIN j.assignedWorkers = {Self, "p1"}
       /\ j.assignedWorkers[Self] = 0 /\ j.assignedWorkers["p1"] = 1
       /\ \E k \in 1..Len(runs') :
             runs'[k] = [kind |-> "chunk", oid |-> cur', taskId |-> j.id,
                         chunkId |-> 0, left |-> 10, total |-> 10]
       /\ sent' = <<[to |-> "p1", taskId |-> j.id, chunkId |-> 1,
                     startStep |-> 10, endStep |-> 20]>>
C10_Completion ==
    \A o \in AllJobs :
        /\ jobs[o].completions <= 1
        /\ jobs[o].status = "complete" <=> jobs[o].completions = 1
        /\ (o = cur /\ Len(jobs[o].chunks) = 2)
              => ~(HasComplete(jobs[o].results, 0) /\ HasComplete(jobs[o].results, 1))
        /\ (jobs[o].status = "complete" /\ Len(jobs[o].chunks) = 2)
              => (HasComplete(jobs[o].results, 0) /\ HasComplete(jobs[o].results, 1))
C10_EndToEnd == [][C10_Dispatch /\ C10_Completion']_vars

\* C10 witness: the job was split into [0,10) and [10,20), both complete
\* Results are recorded, and onComplete has fired once.
C10_Witness ==
    \E o \in AllJobs :
        /\ jobs[o].steps = E2ESteps /\ Len(jobs[o].chunks) = 2
        /\ jobs[o].chunks[1].endStep = 10 /\ jobs[o].chunks[2].startStep = 10
        /\ HasComplete(jobs[o].results, 0) /\ HasComplete(jobs[o].results, 1)
        /\ jobs[o].status = "complete" /\ jobs[o].completions = 1

\* ------------------------------------------------------------ queue merge
CountId(q, js, id) == Cardinality({k \in 1..Len(q) : js[q[k]].id = id})
ProjIds(proj) == {proj[k] : k \in 1..Len(proj)}
QueueIds == {jobs[queue[k]].id : k \in 1..Len(queue)}
LocalIds == QueueIds \cup (IF cur # NoTask THEN {jobs[cur].id} ELSE {})
AppendedIds ==
    [k \in 1..(Len(queue') - Len(queue)) |-> jobs'[queue'[Len(queue) + k]].id]

\* The ids of a projection that are not in `present`, in order, once each.
RECURSIVE MissingIds(_, _)
MissingIds(proj, present) ==
    IF proj = <<>> THEN <<>>
    ELSE IF Head(proj) \in present THEN MissingIds(Tail(proj), present)
    ELSE <<Head(proj)>> \o MissingIds(Tail(proj), present \cup {Head(proj)})

\* C11: the merge of a projection leaves a queue that a second merge of the
\* same projection does not change, and no id of the projection is in the
\* queue more often than before the first merge, or than once when it was
\* not there.
C11_MergeTwice ==
    [][\A proj \in Projections :
          QueueUpdate(proj)
          => LET after == [jobs |-> jobs', queue |-> queue', cur |-> cur',
                           workers |-> workers', runs |-> runs', sent |-> <<>>,
                           bcast |-> <<>>, agg |-> NoAgg, calls |-> {},
                           posts |-> posts', progOut |-> <<>>, resOut |-> <<>>]
                 again == SyncQueue(after, proj)
             IN /\ again.queue = queue'
                /\ again.jobs = jobs'
                /\ \A id \in ProjIds(proj) :
                      CountId(queue', jobs', id)
                         = (IF CountId(queue, jobs, id) = 0 THEN 1
                            ELSE CountId(queue, jobs, id))]_vars

\* C11 witness: the projection of a foreign job has been merged into a queue
\* that already held a local job: the foreign job is there once, at the tail.
C11_Witness ==
    /\ Len(jobs) = 3 /\ queue = <<2, 3>>
    /\ jobs[2].origin = "local" /\ jobs[3].origin = "sync"
    /\ jobs[3].id = ForeignId

\* C12, as stated: a merge keeps every queue entry with its place and status,
\* leaves the active job and the registry alone, and appends, in order, the
\* projected jobs whose id is neither in the queue nor that of the active job.
C12_AddOnlyMerge ==
    [][\A proj \in Projections :
          QueueUpdate(proj)
          => /\ SubSeq(queue', 1, Len(queue)) = queue
             /\ \A o \in AllJobs : jobs'[o].status = jobs[o].status /\ jobs'[o].id = jobs[o].id
             /\ cur' = cur /\ workers' = workers
             /\ AppendedIds = MissingIds(proj, LocalIds)]_vars

\* What the merge does: the same, with the projected ids looked up in the
\* queue only.
MergeAppendsIdsNotInQueue ==
    [][\A proj \in Projections :
          QueueUpdate(proj)
          => /\ SubSeq(queue', 1, Len(queue)) = queue
             /\ \A o \in AllJobs : jobs'[o].status = jobs[o].status /\ jobs'[o].id = jobs[o].id
             /\ cur' = cur /\ workers' = workers
             /\ AppendedIds = MissingIds(proj, QueueIds)]_vars

\* C13: jobs are numbered in the order they were appended to the queue; the
\* waiting jobs are in that order, and every job that has left the queue was
\* appended before every job still waiting.
C13_Fifo ==
    /\ \A i, k \in 1..Len(queue) : i < k => queue[i] < queue[k]
    /\ \A o \in AllJobs :
          (\A k \in 1..Len(queue) : queue[k] # o)
          => (\A k \in 1..Len(queue) : o < queue[k])

\* C13 witness: three jobs appended by a remote request, a merge and addTask,
\* in that order; the first is done, the second is active, the third waits.
C13_Witness ==
    /\ Len(jobs) = 3 /\ queue = <<3>> /\ cur = 2
    /\ jobs[1].origin = "generate" /\ jobs[1].status = "complete"
    /\ jobs[2].origin = "sync" /\ jobs[3].origin = "local"

\* ------------------------------------------------------- queue broadcasts
QueueProjection ==
    [k \in 1..Len(queue) |-> [id |-> jobs[queue[k]].id, status |-> jobs[queue[k]].status]]

\* C14: a handler that changes the queue by a local admission, by the
\* admission of a remote 'generate' request or by pulling the head job ends
\* with a broadcast of the projection of the queue it leaves.
C14_BroadcastOnMutation ==
    [][(queue' # queue /\ ~(\E proj \in Projections : QueueUpdate(proj)))
       => (bcast' # <<>> /\ bcast'[Len(bcast')] = QueueProjection')]_vars

\* --------------------------------------------------------------- progress
WorkingPeers == {k \in 1..Len(workers) : workers[k].status = "working"}
RECURSIVE SumProgress(_, _)
SumProgress(ws, ks) ==
    IF ks = {} THEN 0
    ELSE LET k == CHOOSE x \in ks : TRUE IN ws[k].progress + SumProgress(ws, ks \ {k})
LocalChunkRuns == {k \in 1..Len(runs) : runs[k].kind = "chunk" /\ runs[k].oid = cur}

\* What the aggregate is: the mean over the peers in status working.
MeanOfWorkingPeers ==
    [][\A p \in Peers, v \in ProgressVals :
          (Progress(p, v) /\ cur # NoTask)
          => /\ agg'.n = Cardinality(WorkingPeers')
             /\ agg'.sum = SumProgress(workers', WorkingPeers')
             /\ calls' = {[kind |-> "progress", to |-> "A"]}]_vars

\* C15: the aggregate reported on a progress message for the active job is
\* the mean of the last progress of the peers in status working and, while
\* the local worker executes a chunk of the job, of the local worker's last
\* progress (done steps / steps of its chunk).
C15_ProgressMean ==
    [][\A p \in Peers, v \in ProgressVals :
          (Progress(p, v) /\ cur # NoTask)
          => LET k == Cardinality(WorkingPeers')
                 sum == SumProgress(workers', WorkingPeers')
             IN IF LocalChunkRuns = {}
                THEN agg'.n = k /\ agg'.sum = sum
                ELSE LET r == runs[CHOOSE x \in LocalChunkRuns : TRUE]
                         c == jobs[cur].chunks[ChunkIdx(jobs[cur].chunks, r.chunkId)]
                         b == c.endStep - c.startStep
                         a == b - r.left + 1
                     IN /\ agg'.n = k + 1
                        /\ agg'.sum * b = sum * b + 10 * a]_vars

\* ----------------------------------------------------------------- registry
\* C16: when a complete Result for the chunk a working peer holds is recorded
\* for the active job, the peer's registry entry is idle again and names no
\* chunk.
C16_IdleAfterResult ==
    [][\A p \in Peers :
          (/\ HoldsIncompleteChunk(p)
           /\ workers[WorkerIdx(workers, p)].status = "working"
           /\ ResultMsg(jobs[cur].id, workers[WorkerIdx(workers, p)].currentChunk,
                        "complete"))
          => /\ HasWorker(workers', p)
             /\ workers'[WorkerIdx(workers', p)].status = "idle"
             /\ workers'[WorkerIdx(workers', p)].currentChunk = NoChunk]_vars

\* ------------------------------------------------------------ application
\* C17: once the application has left the network, no local execution of the
\* coordinator it had is still running, no callback is invoked, and the
\* registry is empty.
C17_LeaveCancels ==
    app.left => (runs = <<>> /\ calls = {} /\ workers = <<>>)

\* C18: after a join that failed a coordinator exists, and a job submitted
\* then is admitted and a local execution is started for it.
C18_UsableAfterJoinFailure ==
    [][/\ app'.joinFailed => app'.coordinator
       /\ (app.joinFailed /\ StartGeneration(TRUE))
          => (Len(jobs') = Len(jobs) + 1 /\ runs' # <<>>)]_vars

\* ---------------------------------------------------------------- backend
\* C19: addTask issues one POST of the job when a backend was found and none
\* otherwise; either way it admits the job, returns its id and starts
\* scheduling; and a POST that settles, however it does, changes nothing in
\* the queue, the active slot, the jobs, the registry or the executions.
C19_BackendAbsorbed ==
    [][/\ \A s \in Steps :
            AddTask(TRUE, s)
            => /\ posts' = (IF backendAvailable
                            THEN Append(posts, [id |-> ret', state |-> "pending"])
                            ELSE posts)
               /\ Len(jobs') = Len(jobs) + 1
               /\ jobs'[Len(jobs')].id = ret' /\ ret' \notin KnownIds
               /\ cur' # NoTask
               /\ cur = NoTask => (cur' = Len(jobs') /\ Len(runs') = Len(runs) + 1)
               /\ cur # NoTask => (cur' = cur /\ queue' = Append(queue, Len(jobs')))
       /\ \A outcome \in PostOutcomes :
            PostSettles(outcome)
            => /\ jobs' = Forget(jobs, cur) /\ queue' = queue /\ cur' = cur
               /\ workers' = workers /\ runs' = runs /\ ret' = ret]_vars

\* C19 witness: the POST of the active job was rejected, and the job is
\* still active with its local execution running.
C19_Witness ==
    /\ cur # NoTask /\ jobs[cur].status = "processing"
    /\ \E k \in 1..Len(posts) : posts[k].id = jobs[cur].id /\ posts[k].state = "rejected"
    /\ \E k \in 1..Len(runs) : runs[k].oid = cur

\* ----------------------------------------------------------------- events
\* C20: a registration replaces the subscriber of its event and of no other,
\* and every callback invoked by a handler goes to the subscriber registered
\* last for its event: after A then B, only B is invoked.
C20_SingleSubscriber ==
    [][/\ \A kind \in EventKinds, who \in Subscribers :
            Register(kind, who) => subs' = [subs EXCEPT ![kind] = who]
       /\ \A c \in calls' : c.to = subs'[c.kind]
       /\ \A kind \in EventKinds : Cardinality({c \in calls' : c.kind = kind}) <= 1]_vars

\* C20 witness: B was registered for onComplete and onQueueChange after A,
\* and A is still registered for onLog; a job has completed, its completion
\* went to B and its log line to A.
C20_Witness ==
    /\ subs["complete"] = "B" /\ subs["queueChange"] = "B" /\ subs["log"] = "A"
    /\ [kind |-> "complete", to |-> "B"] \in calls
    /\ [kind |-> "log", to |-> "A"] \in calls
    /\ \A c \in calls : c.to = "A" => c.kind \in {"log", "progress"}

\* C21: a POST to the queue endpoint whose body has no id is answered with
\* status 400 and the error 'Invalid task', and the room queues and the room
\* statistics are as before; a POST whose body has an id is accepted and a
\* task with that id is in the queue of that room afterwards.
C21_PostValidated ==
    [][\A room \in Rooms, id \in BodyIds :
          PostQueue(room, id) =>
              IF id = NoId
              THEN /\ srvResp'.status = 400 /\ srvResp'.error = "Invalid task"
                   /\ UNCHANGED <<srvQueues, srvStats>>
              ELSE /\ srvResp'.status = 200 /\ srvResp'.taskId = id
                   /\ room \in DOMAIN srvQueues'
                   /\ \E k \in 1..Len(srvQueues'[room]) : srvQueues'[room][k].id = id]_vars

\* A body without an id was refused while a room holds an accepted task.
C21_Witness ==
    /\ srvResp.status = 400
    /\ \E room \in DOMAIN srvQueues : Len(srvQueues[room]) = MaxSrvIds

\* C22: in every reachable state getStats returns the number of registry
\* entries as totalPeers, the number of GPU-capable registry entries plus one
\* when the local worker is GPU-capable as gpuWorkers, the number of waiting
\* jobs as queueLength, and the id of the active job, absent when idle.
C22_Stats ==
    LET stats == GetStats(St)
        gpuPeers == {p \in Peers : \E i \in 1..Len(workers) :
                                       workers[i].id = p /\ workers[i].hasGPU}
    IN /\ stats.totalPeers = Cardinality({p \in Peers : HasWorker(workers, p)})
       /\ stats.gpuWorkers = Cardinality(gpuPeers \cup (IF localGPU THEN {Self} ELSE {}))
       /\ stats.queueLength = Cardinality({o \in AllJobs : \E k \in 1..Len(queue) : queue[k] = o})
       /\ (cur = NoTask => stats.currentTask = <<>>)
       /\ (cur # NoTask => stats.currentTask = <<jobs[cur].id>>)

\* Two peers, one with a GPU, a local GPU, a job active and a job waiting.
C22_Witness ==
    /\ localGPU /\ Len(workers) = 2
    /\ \E i, k \in 1..Len(workers) : workers[i].hasGPU /\ ~workers[k].hasGPU
    /\ cur # NoTask /\ queue # <<>>

\* C23: when a job is pulled, its chunks go to the candidates in this order:
\* the local worker if it is GPU-capable, then the registry peers that are
\* idle and GPU-capable, in registration order; the candidate count sets the
\* chunk size; a peer that is working, absent from the registry or not
\* GPU-capable is given nothing, and with no candidate the job runs locally.
IsIdleGpu(w) == w.status = "idle" /\ w.hasGPU
Candidates ==
    (IF localGPU THEN <<Self>> ELSE <<>>)
    \o [i \in 1..Len(SelectSeq(workers, IsIdleGpu)) |-> SelectSeq(workers, IsIdleGpu)[i].id]
Pulled == cur' # NoTask /\ cur' # cur /\ jobs'[cur'].full
C23_CandidateSet ==
    [][Pulled =>
          LET j == jobs'[cur']
              n == Len(j.chunks)
          IN IF Candidates = <<>>
             THEN /\ n = 0
                  /\ \E k \in 1..Len(runs') : runs'[k].kind = "job" /\ runs'[k].oid = cur'
             ELSE /\ n >= 1 /\ n <= Len(Candidates)
                  /\ j.chunks[1].endStep =
                         Min((j.steps + Len(Candidates) - 1) \div Len(Candidates), j.steps)
                  /\ DOMAIN j.assignedWorkers = {Candidates[i] : i \in 1..n}
                  /\ \A i \in 1..n : j.assignedWorkers[Candidates[i]] = j.chunks[i].id]_vars

\* The active job was split while a GPU peer was still marked working from an
\* earlier job: that peer got no chunk, a later idle GPU peer got one.
C23_Witness ==
    /\ cur # NoTask /\ jobs[cur].full /\ Len(workers) = 2
    /\ workers[1].status = "working" /\ workers[1].hasGPU
    /\ workers[1].id \notin DOMAIN jobs[cur].assignedWorkers
    /\ workers[2].id \in DOMAIN jobs[cur].assignedWorkers

\* ---------------------------------------------------------------- dispatch
\* C24: every dispatch follows the dispatch rule: a task message is targeted
\* at a peer, never at the local worker, and when the first remaining
\* candidate after a departure is the local worker the chunk is executed
\* in-process: a local execution of it is started and no message is sent.
C24_DispatchRule ==
    [][/\ \A i \in 1..Len(sent') : sent'[i].to \in Peers
       /\ \A p \in Peers :
             (HoldsIncompleteChunk(p) /\ localGPU /\ PeerLeave(p))
             => /\ sent' = <<>>
                /\ Len(runs') = Len(runs) + 1
                /\ runs'[Len(runs')].kind = "chunk"
                /\ runs'[Len(runs')].chunkId = HeldChunk(p).id]_vars

\* C25: every chunk sent to a peer, by the first dispatch or by the
\* reassignment after a departure, leaves that peer's registry entry with
\* status working and with the sent chunk as its current chunk.
C25_AssignmentMarksWorking ==
    [][\A i \in 1..Len(sent') :
          sent'[i].to \in Peers
          => /\ HasWorker(workers', sent'[i].to)
             /\ workers'[WorkerIdx(workers', sent'[i].to)].status = "working"
             /\ workers'[WorkerIdx(workers', sent'[i].to)].currentChunk
                    = sent'[i].chunkId]_vars

\* C26: when the chunk named by a departing peer's entry already has a
\* complete Result recorded for the active job, the departure handler sends
\* nothing, starts nothing and only removes the entry.
C26_NoReassignAfterResult ==
    [][\A p \in Peers :
          (/\ HasWorker(workers, p) /\ cur # NoTask /\ jobs[cur].full
           /\ HasChunk(jobs[cur].chunks, workers[WorkerIdx(workers, p)].currentChunk)
           /\ HasComplete(jobs[cur].results, workers[WorkerIdx(workers, p)].currentChunk)
           /\ PeerLeave(p))
          => /\ sent' = <<>> /\ runs' = runs
             /\ workers' = RemoveAt(workers, WorkerIdx(workers, p))
             /\ jobs'[cur].chunks = jobs[cur].chunks]_vars

\* C27: the peer-leave handler never sends the chunk to the departing worker
\* itself, and when it finishes the departing worker is absent from the
\* registry while every other registry entry is as it was.
C27_LeaveRemovesEntry ==
    [][\A p \in Peers :
          (HasWorker(workers, p) /\ PeerLeave(p))
          => /\ \A i \in 1..Len(sent') : sent'[i].to # p
             /\ ~HasWorker(workers', p)
             /\ workers' = RemoveAt(workers, WorkerIdx(workers, p))]_vars

\* ----------------------------------------------------------------- worker
ReceivedChunkEnds ==
    /\ runs # <<>> /\ Head(runs).kind = "chunk" /\ Head(runs).oid = NoTask
    /\ Head(runs).left = 1
    /\ Tick

\* C28: a peer that finishes a chunk it received in a 'process_chunk' message
\* delivers a complete Result for that chunk to the peer that dispatched it.
C28_ResultDelivered ==
    [][ReceivedChunkEnds
       => \E i \in 1..Len(resOut') :
             /\ resOut'[i].to \in Peers
             /\ resOut'[i].taskId = Head(runs).taskId
             /\ resOut'[i].chunkId = Head(runs).chunkId
             /\ resOut'[i].status = "complete"]_vars

\* C30: the local execution of a chunk with k steps emits the progress values
\* 1/k, 2/k, ..., k/k, one per step: 1/k when it starts, and at each timer
\* before the last the next value; the last timer emits no progress and
\* exactly one complete Result for the chunk; no other step emits a Result.
\* An execution that has `left` timers to go has emitted total - left + 1
\* values, so the Result comes after the value k/k and after nothing else.
IsChunkRun(r) == r.kind = "chunk"
ProgressMsg(r, num) ==
    [taskId |-> r.taskId, chunkId |-> r.chunkId, num |-> num, den |-> r.total,
     workerId |-> Self]
C30_ProgressThenResult ==
    [][LET tick == Tick
           r == Head(runs)
           kept == IF ~tick THEN runs
                   ELSE IF r.left > 1 THEN Append(Tail(runs), [r EXCEPT !.left = @ - 1])
                   ELSE Tail(runs)
           started == SelectSeq(SubSeq(runs', Len(kept) + 1, Len(runs')), IsChunkRun)
           next == IF tick /\ r.kind = "chunk" /\ r.left > 1
                   THEN <<ProgressMsg(r, r.total - r.left + 2)>> ELSE <<>>
           done == IF tick /\ r.kind = "chunk" /\ r.left = 1
                   THEN <<[taskId |-> r.taskId, chunkId |-> r.chunkId,
                           status |-> "complete"]>>
                   ELSE <<>>
       IN /\ Len(runs') >= Len(kept) /\ SubSeq(runs', 1, Len(kept)) = kept
          /\ \A k \in 1..Len(started) :
                started[k].left = started[k].total /\ started[k].total >= 1
          /\ progOut' = next \o [k \in 1..Len(started) |-> ProgressMsg(started[k], 1)]
          /\ \A k \in 1..Len(progOut') : progOut'[k].num >= 1 /\ progOut'[k].num <= progOut'[k].den
          /\ [k \in 1..Len(resOut') |->
                 [taskId |-> resOut'[k].taskId, chunkId |-> resOut'[k].chunkId,
                  status |-> resOut'[k].status]] = done]_vars

\* The last progress value of a chunk of MaxChunkSteps steps has been emitted.
C30_Witness ==
    /\ Len(progOut) = 1 /\ progOut[1].num = MaxChunkSteps /\ progOut[1].den = MaxChunkSteps
    /\ \E k \in 1..Len(runs) : /\ runs[k].kind = "chunk" /\ runs[k].left = 1
                                 /\ runs[k].chunkId = progOut[1].chunkId

\* ------------------------------------------------------------ termination
\* C29: with no peer in the registry and every step timer expiring in the
\* end, every job admitted by addTask ends up marked complete, once, with the
\* active slot cleared, the queue empty and no execution left; the step that
\* marks a job complete ends a local execution of it while it is in the
\* active slot, reports it through onComplete and takes it out of the slot;
\* nothing is sent to a peer.
AllDoneAndIdle ==
    /\ cur = NoTask /\ queue = <<>> /\ runs = <<>>
    /\ \A o \in AllJobs : jobs[o].status = "complete" /\ jobs[o].completions = 1
C29_LocalTermination ==
    /\ <>[]AllDoneAndIdle
    /\ [][/\ sent' = <<>>
          /\ \A o \in AllJobs :
                (jobs[o].status # "complete" /\ jobs'[o].status = "complete")
                => /\ [kind |-> "complete", to |-> "app"] \in calls'
                   /\ cur = o /\ RunsOf(o) # {}
                   /\ cur' # o /\ \A k \in 1..Len(runs') : runs'[k].oid # o]_vars

\* Every job that could be admitted is complete and the scheduler is idle.
C29_Witness ==
    /\ Len(jobs) = MaxLocalJobs
    /\ \A o \in AllJobs : jobs[o].status = "complete" /\ jobs[o].completions = 1
    /\ cur = NoTask /\ queue = <<>> /\ runs = <<>> /\ workers = <<>>

\* ------------------------------------------------------------ late results
NotForActiveJob(id) == cur = NoTask \/ jobs[cur].id # id
StoresUntouched ==
    /\ UNCHANGED <<queue, cur, workers, runs>>
    /\ Len(jobs') = Len(jobs)
    /\ \A o \in AllJobs : /\ jobs'[o].status = jobs[o].status
                           /\ jobs'[o].completions = jobs[o].completions
    /\ cur # NoTask => jobs'[cur] = jobs[cur]
    /\ sent' = <<>> /\ bcast' = <<>> /\ resOut' = <<>>

\* C31, as stated: a Result whose job id is not the id of the active job, or
\* that arrives while no job is active, changes neither the result store nor
\* the active job, the queue or the registry, and no callback fires.
C31_LateResultIgnored ==
    [][\A id \in MsgIds, c \in MsgChunkIds, st \in ResultStatus :
          (NotForActiveJob(id) /\ ResultMsg(id, c, st))
          => (StoresUntouched /\ calls' = {})]_vars

\* C31, amended: such a Result changes neither the result store nor the
\* active job, the queue or the registry, and the only callback that fires is
\* the log callback, for the line that reports the receipt.
C31_LateResultOnlyLogged ==
    [][\A id \in MsgIds, c \in MsgChunkIds, st \in ResultStatus :
          (NotForActiveJob(id) /\ ResultMsg(id, c, st))
          => (StoresUntouched /\ \A call \in calls' : call.kind = "log")]_vars

\* A job is complete, nothing is active, and the last handler only logged:
\* a Result arrived after the job it names had left the slot.
C31_Witness ==
    /\ cur = NoTask /\ Len(jobs) >= 1 /\ jobs[1].status = "complete"
    /\ calls = {[kind |-> "log", to |-> "A"]}

\* --------------------------------------------------------------- identity
\* C32: in every reachable state no two queue entries share a job id and no
\* queue entry has the id of the active job.
C32_UniqueJobIds ==
    /\ \A i, k \in 1..Len(queue) :
          i # k => jobs[queue[i]].id # jobs[queue[k]].id
    /\ cur # NoTask => \A k \in 1..Len(queue) : jobs[queue[k]].id # jobs[cur].id

\* C33: after any handler has run, if the active slot is empty then the
\* queue is empty.
C33_NeverIdleWithWork == cur = NoTask => queue = <<>>

\* --------------------------------------------------------- stale entries
\* C34: the departure of a peer that was assigned no chunk of the active job
\* dispatches nothing and leaves the chunks of the active job as they are,
\* whatever chunk id an earlier job left in the peer's registry entry.
C34_NoRedispatchForStaleChunk ==
    [][\A p \in Peers :
          (/\ HasWorker(workers, p) /\ cur # NoTask /\ jobs[cur].full
           /\ p \notin DOMAIN jobs[cur].assignedWorkers
           /\ PeerLeave(p))
          => /\ sent' = <<>> /\ runs' = runs
             /\ jobs'[cur].chunks = jobs[cur].chunks]_vars

\* C35: while a peer holds a dispatched chunk of the active job that has no
\* complete Result, its registry entry is working and names that chunk, and
\* a capability announcement of that peer leaves the entry so.
HoldsUnansweredChunk(p) ==
    /\ HasWorker(workers, p) /\ cur # NoTask /\ jobs[cur].full
    /\ p \in DOMAIN jobs[cur].assignedWorkers
    /\ ~HasComplete(jobs[cur].results, jobs[cur].assignedWorkers[p])
    /\ workers[WorkerIdx(workers, p)].status = "working"
    /\ workers[WorkerIdx(workers, p)].currentChunk = jobs[cur].assignedWorkers[p]
C35_AnnouncementKeepsWorking ==
    [][\A p \in Peers, gpu \in BOOLEAN :
          (HoldsUnansweredChunk(p) /\ Capabilities(p, gpu))
          => /\ HasWorker(workers', p)
             /\ workers'[WorkerIdx(workers', p)].status = "working"
             /\ workers'[WorkerIdx(workers', p)].currentChunk
                    = jobs[cur].assignedWorkers[p]]_vars

\* ------------------------------------------------------------- reordering
\* C36: the registry never keeps an entry for a peer that has left: every
\* peer with a registry entry is in the room, also when an announcement of
\* the peer is handled after its leave event.
C36_NoEntryForGonePeer ==
    \A p \in Peers : HasWorker(workers, p) => p \in DOMAIN net.peers

\* ------------------------------------------------------------ atomicity
\* C37: no Result is handled while the chunks of a job are created and
\* dispatched: at the end of the step that pulls a job, the job has all its
\* chunks, an empty result store and no completion, and no Result of it has
\* been made; afterwards the chunk list of the active job keeps its length,
\* so every completion check compares against the final chunk count.
C37_NoResultWhileDispatching ==
    [][/\ Pulled
          => /\ jobs'[cur'].results = EmptyMap
             /\ jobs'[cur'].status = "processing" /\ jobs'[cur'].completions = 0
             /\ \A k \in 1..Len(resOut') : resOut'[k].taskId # jobs'[cur'].id
       /\ (cur # NoTask /\ cur' = cur)
          => /\ Len(jobs'[cur].chunks) = Len(jobs[cur].chunks)
             /\ \A k \in 1..Len(jobs[cur].chunks) :
                   jobs'[cur].chunks[k].id = jobs[cur].chunks[k].id
       /\ \A o \in AllJobs :
             (jobs[o].status # "complete" /\ jobs'[o].status = "complete")
             => /\ cur = o
                /\ CompletedCount(jobs'[o].results) = Len(jobs[o].chunks)]_vars

\* A job has just been split in two chunks, one running locally and one
\* sent to the peer, and no Result is stored.
C37_Witness ==
    /\ cur # NoTask /\ Len(jobs[cur].chunks) = 2 /\ jobs[cur].results = EmptyMap
    /\ Len(sent) = 1 /\ sent[1].chunkId = 1
    /\ \E k \in 1..Len(runs) : /\ runs[k].oid = cur /\ runs[k].chunkId = 0
                                 /\ runs[k].left = runs[k].total

\* ----------------------------------------------------------------- backend
\* C38: adding to a room queue is idempotent by task id: a room's queue never
\* has two entries with one id, and adding a task whose id is already in the
\* queue of the room, from the REST endpoint or from a peer's task message,
\* leaves the queues and the room statistics unchanged.
C38_AddIdempotent ==
    [][/\ \A room \in DOMAIN srvQueues' :
             \A i, k \in 1..Len(srvQueues'[room]) :
                i # k => srvQueues'[room][i].id # srvQueues'[room][k].id
       /\ \A room \in Rooms, id \in BodyIds :
             (/\ room \in DOMAIN srvQueues
              /\ \E k \in 1..Len(srvQueues[room]) : srvQueues[room][k].id = id
              /\ (PostQueue(room, id) \/ HelperTask(room, id)))
             => UNCHANGED <<srvQueues, srvStats>>]_vars

\* The only room holds two tasks, and the last POST named the first of them
\* when both were there: it was answered with position 2.
C38_Witness ==
    /\ DOMAIN srvQueues = {"r1"} /\ Len(srvQueues["r1"]) = 2
    /\ srvResp.status = 200 /\ srvResp.position = 2
    /\ srvResp.taskId = srvQueues["r1"][1].id

\* C39: a room has a queue exactly when it has a statistics record, and the
\* record's queueLength is the length of the room's queue; the cleanup of an
\* inactive room removes both.
C39_QueuesMatchStats ==
    /\ DOMAIN srvQueues = DOMAIN srvStats
    /\ \A room \in DOMAIN srvQueues :
          srvStats[room].queueLength = Len(srvQueues[room])

\* A POST was accepted, and no room is left: the cleanup has removed it.
C39_Witness ==
    /\ srvResp.status = 200
    /\ DOMAIN srvQueues = {} /\ DOMAIN srvStats = {}

====
